---- MODULE Spec2Model ----
(***************************************************************************)
(* A model of thunkd.py: the redactor (to_clean_project), the splitter     *)
(* (to_modular_project), the merger (from_modular_project), the path       *)
(* deleter (delete_path_if_exists) and the steps of pull.                  *)
(*                                                                         *)
(* JSON values are tagged records, the first field name being the Python   *)
(* type: [dict |-> f, keys |-> q] for a dict (f a function from key        *)
(* strings to values, q its keys in the order they were inserted, which is *)
(* the order Python iterates them in), [list |-> q] for a list,            *)
(* [str |-> s] for a string.  Python strings are TLA+ strings and are      *)
(* taken apart with Len and SubSeq.                                        *)
(* An operation that mutates its argument in place is an operator that     *)
(* returns the argument as it is after the call.  An operation that can    *)
(* end the program returns [outcome |-> "ok" | "fatal" | "raise", ...]:    *)
(* "fatal" is logging.fatal followed by exit(1), "raise" is an uncaught    *)
(* Python exception (KeyError, IndexError, ...).                           *)
(***************************************************************************)
EXTENDS Integers, Sequences, FiniteSets, TLC

VARIABLES pc, d, path, pruned, project, cleaned, recleaned, modular, merged, disk, run

vars == <<pc, d, path, pruned, project, cleaned, recleaned, modular, merged, disk, run>>

\* The value of a variable that the running operation does not use.
Unused == [unused |-> TRUE]

-----------------------------------------------------------------------------
(* JSON values                                                             *)

\* The order in which a document of the model writes the keys of a dict: the
\* screen ids of KeyOrder first, in that order, then the other keys in an
\* order that depends on the set of keys alone.
KeyOrder == <<"A1", "B2", "a.b">>

RECURSIVE AnyOrder(_)
AnyOrder(S) ==
    IF S = {} THEN <<>> ELSE LET k == CHOOSE k \in S : TRUE IN <<k>> \o AnyOrder(S \ {k})

WrittenOrder(S) ==
    SelectSeq(KeyOrder, LAMBDA k : k \in S)
    \o AnyOrder(S \ {KeyOrder[i] : i \in DOMAIN KeyOrder})

\* The dict with the entries of f, written in the order of the model.
Dict(f) == [dict |-> f, keys |-> WrittenOrder(DOMAIN f)]
List(q) == [list |-> q]
Text(s) == [str |-> s]

\* isinstance(v, dict)
IsDict(v) == "dict" \in DOMAIN v
IsList(v) == "list" \in DOMAIN v
IsText(v) == "str" \in DOMAIN v

\* k in v, for a dict v
Has(v, k) == k \in DOMAIN v.dict

\* v[k], for a dict v that has k
Get(v, k) == v.dict[k]

\* v[k] = x, for a dict v: a new key comes last, a key v has keeps its place
Put(v, k, x) ==
    [dict |-> [j \in DOMAIN v.dict \cup {k} |-> IF j = k THEN x ELSE v.dict[j]],
     keys |-> IF k \in DOMAIN v.dict THEN v.keys ELSE Append(v.keys, k)]

\* del v[k], for a dict v that has k
Del(v, k) ==
    [dict |-> [j \in DOMAIN v.dict \ {k} |-> v.dict[j]],
     keys |-> SelectSeq(v.keys, LAMBDA j : j # k)]

\* The dict a document writes as the entries <<key, value>> of pairs, in
\* that order.
RECURSIVE Written(_)
Written(pairs) ==
    IF Len(pairs) = 0
    THEN [dict |-> [k \in {} |-> Unused], keys |-> <<>>]
    ELSE Put(Written(SubSeq(pairs, 1, Len(pairs) - 1)),
             pairs[Len(pairs)][1], pairs[Len(pairs)][2])

\* list(v), for a dict v: its keys, in the order they were inserted
Keys(v) == v.keys

\* v[p[1]][p[2]]..., for a key path p that can be evaluated
RECURSIVE At(_, _)
At(v, p) == IF Len(p) = 0 THEN v ELSE At(Get(v, p[1]), Tail(p))

\* list(v): the elements a for loop over v meets, the elements of a list, the
\* characters of a str, the keys of a dict.
Iter(v) ==
    IF IsList(v)
    THEN v.list
    ELSE IF IsText(v)
         THEN [i \in 1..Len(v.str) |-> Text(SubSeq(v.str, i, i))]
         ELSE [i \in DOMAIN v.keys |-> Text(v.keys[i])]

\* s in v, for a str s: a key of a dict, an element of a list, a substring
\* of a str.
In(s, v) ==
    IF IsDict(v)
    THEN s \in DOMAIN v.dict
    ELSE IF IsList(v)
         THEN \E i \in DOMAIN v.list : v.list[i] = Text(s)
         ELSE \E i \in 1..(Len(v.str) - Len(s) + 1) : SubSeq(v.str, i, i + Len(s) - 1) = s

-----------------------------------------------------------------------------
(* delete_path_if_exists                                                   *)

\* A deleter that removes the first key it finds instead of descending to the
\* final key of the path.
delete_path_first_key(v, p) ==
    IF Len(p) = 0 \/ ~IsDict(v) \/ ~Has(v, p[1]) THEN v ELSE Del(v, p[1])

RECURSIVE delete_path_if_exists(_, _)
delete_path_if_exists(v, p) ==
    IF Len(p) = 0 \/ ~IsDict(v) \/ ~Has(v, p[1])
    THEN v
    ELSE IF Len(p) = 1
         THEN Del(v, p[1])
         ELSE Put(v, p[1], delete_path_if_exists(Get(v, p[1]), Tail(p)))


-----------------------------------------------------------------------------
(* Inputs of the path deleter: trees of nested dicts over two keys, with  *)
(* strings and lists as the non-mapping nodes, and key paths.              *)

MaxDepth == 2
MaxPathLen == 3

TreeKeys == {"a", "b"}

RECURSIVE Trees(_)
Trees(n) ==
    IF n = 0
    THEN {Text("v")}
    ELSE {Text("v"), List(<<>>)}
         \cup {Dict(f) : f \in UNION {[K -> Trees(n - 1)] : K \in SUBSET TreeKeys}}

KeyPaths == UNION {[1..n -> TreeKeys] : n \in 0..MaxPathLen}

InitDelete ==
    /\ pc = "delete"
    /\ d \in Trees(MaxDepth)
    /\ path \in KeyPaths
    /\ pruned = Unused
    /\ project = Unused /\ cleaned = Unused /\ recleaned = Unused
    /\ modular = Unused /\ merged = Unused /\ disk = Unused /\ run = Unused

\* One call delete_path_if_exists(d=d, path=path); pruned is d after the call.
DeletePath ==
    /\ pc = "delete"
    /\ pruned' = delete_path_if_exists(d, path)
    /\ pc' = "deleted"
    /\ UNCHANGED <<d, path, project, cleaned, recleaned, modular, merged, disk, run>>

NextDelete == DeletePath

SpecDelete == InitDelete /\ [][NextDelete]_vars

-----------------------------------------------------------------------------
(* What a tree holds, said without the deleter: the key paths that lead    *)
(* through mappings to a key, and the value each leads to.                 *)

RECURSIVE PathsOf(_)
PathsOf(v) ==
    IF ~IsDict(v)
    THEN {}
    ELSE UNION {{<<k>>} \cup {<<k>> \o q : q \in PathsOf(Get(v, k))} : k \in DOMAIN v.dict}

IsPrefix(p, q) == Len(p) <= Len(q) /\ SubSeq(q, 1, Len(p)) = p

\* The trees v and w agree at q: both hold a mapping there, or the same value.
SameAt(v, w, q) ==
    IF IsDict(At(v, q)) THEN IsDict(At(w, q)) ELSE At(w, q) = At(v, q)

\* C7: delete_path_if_exists leaves the tree unchanged when the path is empty
\* or does not lead through mappings to an existing key; otherwise the tree
\* afterwards holds exactly the paths that do not pass through the path's
\* final key, each with the value it had (siblings at every level included).
C7_PathDelete ==
    pc = "deleted" =>
        IF path \in PathsOf(d)
        THEN /\ IsDict(pruned)
             /\ PathsOf(pruned) = {q \in PathsOf(d) : ~IsPrefix(path, q)}
             /\ \A q \in PathsOf(pruned) : SameAt(d, pruned, q)
        ELSE pruned = d

\* C7 witness: a key two levels down is deleted, its parent keeps a sibling
\* and the root keeps a sibling of the parent.
C7_Witness ==
    /\ pc = "deleted"
    /\ Len(path) = 2
    /\ path \in PathsOf(d)
    /\ DOMAIN d.dict = TreeKeys
    /\ DOMAIN Get(d, path[1]).dict = TreeKeys
    /\ pruned # d

-----------------------------------------------------------------------------
(* to_clean_project                                                        *)

RECURSIVE ConcatAll(_)
ConcatAll(qs) == IF Len(qs) = 0 THEN <<>> ELSE Head(qs) \o ConcatAll(Tail(qs))

\* The fixed dirty_paths list without its projectSettings.packageName entry.
dirty_paths_short ==
    << <<"data", "user">>,
       <<"data", "project", "id">>,
       <<"data", "project", "blocklyStringLength">>,
       <<"data", "project", "componentStringLength">>,
       <<"data", "project", "createdAt">>,
       <<"data", "project", "email">>,
       <<"data", "project", "hash">>,
       <<"data", "project", "isArchiveProjectFileUsed">>,
       <<"data", "project", "isHiddenFromPublicGallery">>,
       <<"data", "project", "isLegacy">>,
       <<"data", "project", "isOwner">>,
       <<"data", "project", "isPublic">>,
       <<"data", "project", "isQRCodeScanned">>,
       <<"data", "project", "isLiveTesting">>,
       <<"data", "project", "settings", "packageName">>,
       <<"data", "project", "storageSize">>,
       <<"data", "project", "webAppSettings">>,
       <<"data", "project", "webCompanionSettings">>,
       <<"data", "project", "frontendProperties">>,
       <<"data", "project", "appId">>,
       <<"data", "project", "readOnly">>,
       <<"data", "project", "shares">>,
       <<"data", "project", "versions">>,
       <<"data", "project", "shares">>,
       <<"data", "project", "projectSnapshotsMetaData">>,
       <<"data", "project", "projectSnapshotParentId">>,
       <<"data", "project", "projectSnapshotParent">>,
       <<"data", "project", "updatedAt">>,
       <<"data", "project", "username">> >>

\* The fixed part of dirty_paths, in the order of the source.
dirty_paths ==
    << <<"data", "user">>,
       <<"data", "project", "id">>,
       <<"data", "project", "blocklyStringLength">>,
       <<"data", "project", "componentStringLength">>,
       <<"data", "project", "createdAt">>,
       <<"data", "project", "email">>,
       <<"data", "project", "hash">>,
       <<"data", "project", "isArchiveProjectFileUsed">>,
       <<"data", "project", "isHiddenFromPublicGallery">>,
       <<"data", "project", "isLegacy">>,
       <<"data", "project", "isOwner">>,
       <<"data", "project", "isPublic">>,
       <<"data", "project", "isQRCodeScanned">>,
       <<"data", "project", "isLiveTesting">>,
       <<"data", "project", "settings", "packageName">>,
       <<"data", "project", "projectSettings", "packageName">>,
       <<"data", "project", "storageSize">>,
       <<"data", "project", "webAppSettings">>,
       <<"data", "project", "webCompanionSettings">>,
       <<"data", "project", "frontendProperties">>,
       <<"data", "project", "appId">>,
       <<"data", "project", "readOnly">>,
       <<"data", "project", "shares">>,
       <<"data", "project", "versions">>,
       <<"data", "project", "shares">>,
       <<"data", "project", "projectSnapshotsMetaData">>,
       <<"data", "project", "projectSnapshotParentId">>,
       <<"data", "project", "projectSnapshotParent">>,
       <<"data", "project", "updatedAt">>,
       <<"data", "project", "username">> >>

\* The props whose paths the loop appends for one screen id, were the second
\* test of the loop an elif: at most the first prop found.
code_props_first_only(entry) ==
    IF Has(entry, "code")
    THEN <<"code">>
    ELSE IF Has(entry, "appVariableDefCode") THEN <<"appVariableDefCode">> ELSE <<>>

\* The props of one blockly entry whose paths the loop appends.
code_props(entry) ==
    SelectSeq(<<"code", "appVariableDefCode">>, LAMBDA prop : In(prop, entry))

\* The paths the loop over iproject["blockly"] appends to dirty_paths.
code_paths(blockly) ==
    ConcatAll([i \in 1..Len(Keys(blockly)) |->
        LET screen_id == Keys(blockly)[i]
            props == code_props(Get(blockly, screen_id))
        IN  [j \in 1..Len(props) |->
                <<"data", "project", "blockly", screen_id, props[j]>>]])

\* for path in paths: delete_path_if_exists(d=v, path=path)
\* for path in paths: delete_path_if_exists(d=v, path=path)
\* The loop is run as its first half followed by its second half, and the test
\* w = v makes TLC compute the tree after the first half before it goes on:
\* TLC evaluates operator arguments lazily, and a loop of thirty deletions
\* nested inside the last one overflows its stack.
RECURSIVE delete_paths(_, _)
delete_paths(v, paths) ==
    IF Len(paths) = 0
    THEN v
    ELSE IF Len(paths) = 1
         THEN delete_path_if_exists(v, paths[1])
         ELSE LET half == Len(paths) \div 2
                  rest == SubSeq(paths, half + 1, Len(paths))
                  w == delete_paths(v, SubSeq(paths, 1, half))
              IN  IF w = v THEN delete_paths(v, rest) ELSE delete_paths(w, rest)

\* v[keys[1]][keys[2]]... can be evaluated: every key is there, in a dict.
RECURSIVE HasPath(_, _)
HasPath(v, keys) ==
    \/ Len(keys) = 0
    \/ /\ IsDict(v)
       /\ Has(v, keys[1])
       /\ HasPath(Get(v, keys[1]), Tail(keys))

\* to_clean_project(project).  A missing key on the way to
\* project["data"]["project"]["blockly"] raises; so does a blockly that is a
\* list or a str with an element, which the loop indexes blockly with.
to_clean_project(p) ==
    IF ~HasPath(p, <<"data", "project", "blockly">>)
    THEN [outcome |-> "raise"]
    ELSE LET blockly == At(p, <<"data", "project", "blockly">>)
         IN  IF IsDict(blockly)
             THEN [outcome |-> "ok",
                   project |-> delete_paths(p, dirty_paths \o code_paths(blockly))]
             ELSE IF Len(Iter(blockly)) = 0
                  THEN [outcome |-> "ok", project |-> delete_paths(p, dirty_paths)]
                  ELSE [outcome |-> "raise"]

-----------------------------------------------------------------------------
(* Inputs of the redactor: responses of the server with and without each  *)
(* optional section, and two responses without the blockly spine.          *)

MaxDirtyKeys == 1

\* The server-owned keys a response may carry under data.project.
ProjectDirtyKeys ==
    {"id", "blocklyStringLength", "componentStringLength", "createdAt",
     "email", "hash", "isArchiveProjectFileUsed", "isHiddenFromPublicGallery",
     "isLegacy", "isOwner", "isPublic", "isQRCodeScanned", "isLiveTesting",
     "storageSize", "webAppSettings", "webCompanionSettings",
     "frontendProperties", "appId", "readOnly", "shares", "versions",
     "projectSnapshotsMetaData", "projectSnapshotParentId",
     "projectSnapshotParent", "updatedAt", "username"}

Absent == [k \in {} |-> Unused]

\* The one entry k: v of a dict, or no entry when v is Unused.
Opt(k, v) == IF v = Unused THEN Absent ELSE (k :> v)

CleanEntries ==
    {Dict("xml" :> Text("<x/>")),
     Dict("appVariableDefCode" :> Text("var a;")),
     Dict(("xml" :> Text("<x/>")) @@ ("code" :> Text("f();"))
          @@ ("appVariableDefCode" :> Text("var a;")))}

CleanBlocklies ==
    {Dict(Opt("A1", a) @@ Opt("B2", b)) :
        a \in CleanEntries \cup {Unused},
        b \in {Unused, Dict(("xml" :> Text("<y/>")) @@ ("code" :> Text("g();")))}}

CleanSettings ==
    {Unused,
     Text("none"),
     Dict(("packageName" :> Text("com.x")) @@ ("appName" :> Text("Demo")))}

CleanProjectSettings == {Unused, Dict("packageName" :> Text("com.x"))}

CleanUsers == {Unused, Dict("id" :> Text("u1"))}

\* The subsets of S of at most n elements.
RECURSIVE SubsetsUpTo(_, _)
SubsetsUpTo(S, n) ==
    IF n = 0
    THEN {{}}
    ELSE LET smaller == SubsetsUpTo(S, n - 1)
         IN  smaller \cup {T \cup {x} : T \in smaller, x \in S}

DirtyKeySets == SubsetsUpTo(ProjectDirtyKeys, MaxDirtyKeys) \cup {ProjectDirtyKeys}

CleanDocs ==
    {Dict(Opt("user", u) @@
          ("project" :> Dict(
              [k \in K |-> Text("v")]
              @@ Opt("settings", st) @@ Opt("projectSettings", ps)
              @@ ("projectName" :> Text("Demo"))
              @@ ("components" :> Dict("children" :> List(<<>>)))
              @@ ("blockly" :> b)))) :
        u \in CleanUsers, K \in DirtyKeySets, st \in CleanSettings,
        ps \in CleanProjectSettings, b \in CleanBlocklies}

\* Responses on which project["data"]["project"]["blockly"] raises KeyError.
SpinelessDocs ==
    {Dict("data" :> Dict(Absent)),
     Dict("data" :> Dict("project" :> Dict("projectName" :> Text("Demo"))))}

InitClean ==
    /\ pc = "clean"
    /\ project \in {Dict("data" :> inner) : inner \in CleanDocs} \cup SpinelessDocs
    /\ cleaned = Unused /\ recleaned = Unused
    /\ d = Unused /\ path = Unused /\ pruned = Unused
    /\ modular = Unused /\ merged = Unused /\ disk = Unused /\ run = Unused

\* project = to_clean_project(project=project), as pull does
Clean ==
    /\ pc = "clean"
    /\ cleaned' = to_clean_project(project)
    /\ pc' = IF cleaned'.outcome = "ok" THEN "cleaned" ELSE "failed"
    /\ UNCHANGED <<d, path, pruned, project, recleaned, modular, merged, disk, run>>

\* to_clean_project applied to a project that is already clean
CleanAgain ==
    /\ pc = "cleaned"
    /\ recleaned' = to_clean_project(cleaned.project)
    /\ pc' = "recleaned"
    /\ UNCHANGED <<d, path, pruned, project, cleaned, modular, merged, disk, run>>

NextClean == Clean \/ CleanAgain

SpecClean == InitClean /\ [][NextClean]_vars

\* The redaction path list as the specification gives it (section 6).
FixedRedactionPaths ==
    {<<"data", "user">>}
    \cup {<<"data", "project", k>> : k \in ProjectDirtyKeys}
    \cup {<<"data", "project", "settings", "packageName">>,
          <<"data", "project", "projectSettings", "packageName">>}

\* The redaction paths of a project: the fixed ones and, for every screen id
\* of its blockly, the paths of code and appVariableDefCode.
RedactionPaths(p) ==
    FixedRedactionPaths
    \cup {<<"data", "project", "blockly", s, prop>> :
            s \in DOMAIN At(p, <<"data", "project", "blockly">>).dict,
            prop \in {"code", "appVariableDefCode"}}

\* C4: after to_clean_project no redaction path (fixed, or code and
\* appVariableDefCode of a screen id of blockly) leads to a key, and every
\* key that is not on or below a redaction path is kept with its value.
C4_RedactionComplete ==
    pc \in {"cleaned", "recleaned"} =>
        LET c == cleaned.project
        IN  /\ cleaned.outcome = "ok"
            /\ \A r \in RedactionPaths(project) : r \notin PathsOf(c)
            /\ PathsOf(c) \subseteq PathsOf(project)
            /\ \A q \in PathsOf(project) :
                   (\A r \in RedactionPaths(project) : ~IsPrefix(r, q))
                       => q \in PathsOf(c) /\ SameAt(project, c, q)

\* C4 witness: a project with a user, a package name next to an app name, a
\* server-owned key and a screen with both code fields has been cleaned.
C4_Witness ==
    /\ pc = "cleaned"
    /\ <<"data", "user">> \in PathsOf(project)
    /\ <<"data", "project", "settings", "packageName">> \in PathsOf(project)
    /\ <<"data", "project", "projectSettings", "packageName">> \in PathsOf(project)
    /\ <<"data", "project", "username">> \in PathsOf(project)
    /\ <<"data", "project", "blockly", "A1", "code">> \in PathsOf(project)
    /\ <<"data", "project", "blockly", "A1", "appVariableDefCode">> \in PathsOf(project)
    /\ <<"data", "project", "settings", "appName">> \in PathsOf(cleaned.project)
    /\ <<"data", "project", "blockly", "A1", "xml">> \in PathsOf(cleaned.project)

\* C5: cleaning a cleaned project succeeds and changes nothing.
C5_CleanIdempotent ==
    pc = "recleaned" =>
        /\ recleaned.outcome = "ok"
        /\ recleaned.project = cleaned.project

\* C5 witness: the first cleaning removed both code fields of a screen and a
\* package name, and the result has been cleaned again.
C5_Witness ==
    /\ pc = "recleaned"
    /\ <<"data", "project", "blockly", "A1", "code">> \in PathsOf(project)
    /\ <<"data", "project", "blockly", "A1", "appVariableDefCode">> \in PathsOf(project)
    /\ <<"data", "project", "settings", "packageName">> \in PathsOf(project)
    /\ cleaned.project # project

-----------------------------------------------------------------------------
(* Strings, file names                                                     *)

\* s[i], the i-th character of s (from 1)
Char(s, i) == SubSeq(s, i, i)

\* sub in s
Contains(s, sub) ==
    \E i \in 1..(Len(s) - Len(sub) + 1) : SubSeq(s, i, i + Len(sub) - 1) = sub

\* The characters \w matches, among those the model's strings are made of.
WordChars ==
    {"a", "b", "c", "d", "e", "f", "g", "h", "i", "j", "k", "l", "m", "n", "o",
     "p", "q", "r", "s", "t", "u", "v", "w", "x", "y", "z", "A", "B", "C", "D",
     "E", "F", "G", "H", "I", "J", "K", "L", "M", "N", "O", "P", "Q", "R", "S",
     "T", "U", "V", "W", "X", "Y", "Z", "0", "1", "2", "3", "4", "5", "6", "7",
     "8", "9", "_"}

\* A name check that looks at the first character only (re.match for re.search).
invalid_first_char(screen_name) ==
    Len(screen_name) > 0 /\ Char(screen_name, 1) \notin WordChars \cup {"-", " "}

\* re.search(r"[^\w\- ]+", screen_name) is not None
invalid_screen_name(screen_name) ==
    \E i \in 1..Len(screen_name) : Char(screen_name, i) \notin WordChars \cup {"-", " "}

\* name.rfind("."), counted from 1; 0 when name has no dot
LastDot(name) ==
    LET dots == {i \in 1..Len(name) : Char(name, i) = "."}
    IN  IF dots = {} THEN 0 ELSE CHOOSE i \in dots : \A j \in dots : j <= i

\* Path(name).suffix, for a name without a directory separator
Suffix(name) ==
    LET i == LastDot(name)
    IN  IF 1 < i /\ i < Len(name) THEN SubSeq(name, i, Len(name)) ELSE ""

\* Path(name).stem, for a name without a directory separator.  Path(".") is
\* the empty path, whose name is "".
Stem(name) ==
    LET i == LastDot(name)
    IN  IF name = "."
        THEN ""
        ELSE IF 1 < i /\ i < Len(name) THEN SubSeq(name, 1, i - 1) ELSE name

\* s.split(".")
RECURSIVE SplitDots(_)
SplitDots(s) ==
    LET dots == {i \in 1..Len(s) : Char(s, i) = "."}
    IN  IF dots = {}
        THEN <<s>>
        ELSE LET i == CHOOSE k \in dots : \A j \in dots : k <= j
             IN  <<SubSeq(s, 1, i - 1)>> \o SplitDots(SubSeq(s, i + 1, Len(s)))

-----------------------------------------------------------------------------
(* Modular projects.  A modular project is a Python dict from file names   *)
(* to contents; from_modular_project iterates it, so it is kept in         *)
(* insertion order: a sequence of [name, data] with pairwise distinct      *)
(* names.  The content of an .xml file, a Python str, is a Text.           *)

\* modular_project[name] = data
PutFile(files, name, data) ==
    IF \E i \in DOMAIN files : files[i].name = name
    THEN [i \in DOMAIN files |->
            IF files[i].name = name THEN [name |-> name, data |-> data] ELSE files[i]]
    ELSE Append(files, [name |-> name, data |-> data])

\* v[keys[1]][keys[2]]... = x, for a path that can be evaluated
RECURSIVE SetAt(_, _, _)
SetAt(v, keys, x) ==
    IF Len(keys) = 0 THEN x ELSE Put(v, keys[1], SetAt(Get(v, keys[1]), Tail(keys), x))

ChildrenPath == <<"data", "project", "components", "children">>
BlocklyPath == <<"data", "project", "blockly">>

\* The screens list holds references to nodes of the tree: <<i>> is the i-th
\* node of components.children, <<i, j>> the j-th child of that node.
NodeAt(children, ref) ==
    IF Len(ref) = 1
    THEN children[ref[1]]
    ELSE Iter(Get(children[ref[1]], "children"))[ref[2]]

\* The children list after the node a reference leads to has become node.
SetNode(children, ref, node) ==
    IF Len(ref) = 1
    THEN [children EXCEPT ![ref[1]] = node]
    ELSE [children EXCEPT ![ref[1]] =
            Put(@, "children", List([Get(@, "children").list EXCEPT ![ref[2]] = node]))]

\* The references one node of components.children adds to screens.
NodeRefs(children, i, unwrap) ==
    IF unwrap
    THEN [j \in 1..Len(Iter(Get(children[i], "children"))) |-> <<i, j>>]
    ELSE << <<i>> >>

\* A flattening that appends every node, navigators included.
split_screens_flat(children) ==
    ConcatAll([i \in 1..Len(children) |-> NodeRefs(children, i, FALSE)])

\* The screens list of to_modular_project: the children of a node whose type
\* contains "Navigator", the node itself otherwise.
split_screens(children) ==
    ConcatAll([i \in 1..Len(children) |->
        NodeRefs(children, i, In("Navigator", Get(children[i], "type")))])

\* screens can be built: every node is a dict with a type, and has children
\* when "Navigator" is in its type.
split_screens_ok(children) ==
    \A i \in 1..Len(children) :
        /\ IsDict(children[i]) /\ Has(children[i], "type")
        /\ In("Navigator", Get(children[i], "type")) => Has(children[i], "children")

\* f"{screen_name}.{screen_id}{suffix}"
FileName(screen_name, screen_id, suffix) == screen_name \o "." \o screen_id \o suffix

\* The loop over screens, from the screen refs[k] on.  st holds the live
\* children list, the files emitted so far and screen_id_to_name.
RECURSIVE extract_screens(_, _, _)
extract_screens(st, refs, k) ==
    IF k > Len(refs)
    THEN [outcome |-> "ok", children |-> st.children, files |-> st.files,
          names |-> st.names]
    ELSE LET screen == NodeAt(st.children, refs[k])
         IN  IF ~(IsDict(screen) /\ Has(screen, "name") /\ Has(screen, "id"))
             THEN [outcome |-> "raise"]
             ELSE LET screen_name == Get(screen, "name").str
                      screen_id == Get(screen, "id").str
                  IN  IF invalid_screen_name(screen_name)
                      THEN [outcome |-> "fatal"]
                      ELSE extract_screens(
                               [children |-> SetNode(st.children, refs[k],
                                                     Dict("id" :> Text(screen_id))),
                                files |-> PutFile(st.files,
                                                  FileName(screen_name, screen_id, ".json"),
                                                  screen),
                                names |-> [j \in DOMAIN st.names \cup {screen_id} |->
                                              IF j = screen_id THEN screen_name
                                              ELSE st.names[j]]],
                               refs, k + 1)

\* The loop over iproject["blockly"], a dict, from the key ids[k] on.  An
\* entry that is a list or a str and has "xml" in it cannot be indexed.
RECURSIVE extract_blocks(_, _, _, _)
extract_blocks(st, names, ids, k) ==
    IF k > Len(ids)
    THEN [outcome |-> "ok", blockly |-> st.blockly, files |-> st.files]
    ELSE LET screen_id == ids[k]
             entry == Get(st.blockly, screen_id)
         IN  IF In("xml", entry) /\ screen_id \in DOMAIN names
             THEN IF ~IsDict(entry)
                  THEN [outcome |-> "raise"]
                  ELSE extract_blocks(
                           [blockly |-> Put(st.blockly, screen_id,
                                            Put(entry, "xml", Text(""))),
                            files |-> PutFile(st.files,
                                              FileName(names[screen_id], screen_id, ".xml"),
                                              Get(entry, "xml"))],
                           names, ids, k + 1)
             ELSE extract_blocks(st, names, ids, k + 1)

\* The loop over iproject["blockly"]: over the keys of a dict; a list or a
\* str with an element is indexed with that element, which raises.
split_blocks(blockly, files, names) ==
    IF IsDict(blockly)
    THEN extract_blocks([blockly |-> blockly, files |-> files], names, Keys(blockly), 1)
    ELSE IF Len(Iter(blockly)) = 0
         THEN [outcome |-> "ok", blockly |-> blockly, files |-> files]
         ELSE [outcome |-> "raise"]

\* to_modular_project(project), for a project whose screen names and ids are
\* strings.  components.children and the children of a navigator are
\* iterated whatever they are; only the nodes of a list can be screens.
to_modular_project(p) ==
    IF ~(HasPath(p, ChildrenPath) /\ split_screens_ok(Iter(At(p, ChildrenPath))))
    THEN [outcome |-> "raise"]
    ELSE LET children == Iter(At(p, ChildrenPath))
             s1 == extract_screens([children |-> children, files |-> <<>>,
                                    names |-> Absent],
                                   split_screens(children), 1)
         IN  IF s1.outcome # "ok"
             THEN [outcome |-> s1.outcome]
             ELSE IF ~HasPath(p, BlocklyPath)
                  THEN [outcome |-> "raise"]
                  ELSE LET s2 == split_blocks(At(p, BlocklyPath), s1.files, s1.names)
                           stubbed == IF IsList(At(p, ChildrenPath))
                                      THEN SetAt(p, ChildrenPath, List(s1.children))
                                      ELSE p
                       IN  IF s2.outcome # "ok"
                           THEN [outcome |-> "raise"]
                           ELSE [outcome |-> "ok",
                                 files |-> PutFile(s2.files, "meta.json",
                                                   SetAt(stubbed, BlocklyPath, s2.blockly))]

-----------------------------------------------------------------------------
(* from_modular_project                                                    *)

\* The test that makes from_modular_project unwrap a node.
merge_unwraps(node) ==
    In("name", node) /\ In("Navigator", Get(node, "type"))

\* The screens list of from_modular_project.
merge_screens(children) ==
    ConcatAll([i \in 1..Len(children) |-> NodeRefs(children, i, merge_unwraps(children[i]))])

\* screens can be built: a node with "name" in it is a dict with a type, and
\* has children when "Navigator" is in its type.
merge_screens_ok(children) ==
    \A i \in 1..Len(children) :
        In("name", children[i]) =>
            /\ IsDict(children[i]) /\ Has(children[i], "type")
            /\ In("Navigator", Get(children[i], "type")) => Has(children[i], "children")

\* An element of a list handed to dict.update is a key and a value: a list of
\* two elements whose first is a str, a str of two characters, or a dict of
\* two keys (its first key and its second key).
IsPair(e) ==
    \/ IsList(e) /\ Len(e.list) = 2 /\ IsText(e.list[1])
    \/ IsText(e) /\ Len(e.str) = 2
    \/ IsDict(e) /\ Len(e.keys) = 2

PairKey(e) ==
    IF IsList(e) THEN e.list[1].str
    ELSE IF IsText(e) THEN SubSeq(e.str, 1, 1) ELSE e.keys[1]
PairValue(e) ==
    IF IsList(e) THEN e.list[2]
    ELSE IF IsText(e) THEN Text(SubSeq(e.str, 2, 2)) ELSE Text(e.keys[2])

\* screen.update(data) can be run: data is a dict, or every element of it is
\* a pair (the characters of a str are not).
update_ok(data) ==
    \/ IsDict(data)
    \/ IsList(data) /\ \A i \in DOMAIN data.list : IsPair(data.list[i])
    \/ IsText(data) /\ data.str = ""

\* The screen after the pairs have been put into it, one after the other.
RECURSIVE update_pairs(_, _)
update_pairs(screen, pairs) ==
    IF Len(pairs) = 0
    THEN screen
    ELSE update_pairs(Put(screen, PairKey(Head(pairs)), PairValue(Head(pairs))), Tail(pairs))

\* screen.update(data), for a data update_ok accepts: the entries of a dict
\* are put in its order
Update(screen, data) ==
    IF IsDict(data)
    THEN update_pairs(screen,
                      [i \in DOMAIN data.keys |->
                          List(<<Text(data.keys[i]), data.dict[data.keys[i]]>>)])
    ELSE IF IsList(data) THEN update_pairs(screen, data.list) ELSE screen

\* The for/else search of a .json file's screen: the index in refs of the
\* first screen whose id is screen_id, 0 when there is none ("fatal"), -1
\* when a screen without an id is met first (screen["id"] raises).
RECURSIVE find_screen(_, _, _, _)
find_screen(children, refs, screen_id, k) ==
    IF k > Len(refs)
    THEN 0
    ELSE LET screen == NodeAt(children, refs[k])
         IN  IF ~(IsDict(screen) /\ Has(screen, "id"))
             THEN 0 - 1
             ELSE IF Get(screen, "id") = Text(screen_id)
                  THEN k
                  ELSE find_screen(children, refs, screen_id, k + 1)

\* The loop over the files left, from files[k] on; p is the live project.
RECURSIVE merge_files(_, _, _, _)
merge_files(p, refs, files, k) ==
    IF k > Len(files)
    THEN [outcome |-> "ok", project |-> p]
    ELSE LET name == files[k].name
             data == files[k].data
             children == Iter(At(p, ChildrenPath))
         IN  IF Suffix(name) = ".json"
             THEN LET segs == SplitDots(Stem(name))
                      hit == find_screen(children, refs, segs[Len(segs)], 1)
                  IN  IF hit = 0
                      THEN [outcome |-> "fatal"]
                      ELSE IF hit < 0 \/ ~update_ok(data)
                           THEN [outcome |-> "raise"]
                           ELSE merge_files(
                                    SetAt(p, ChildrenPath,
                                          List(SetNode(children, refs[hit],
                                               Update(NodeAt(children, refs[hit]), data)))),
                                    refs, files, k + 1)
             ELSE IF Suffix(name) = ".xml"
                  THEN LET segs == SplitDots(Stem(name))
                       IN  IF \/ Len(segs) < 2
                              \/ ~HasPath(p, BlocklyPath \o <<segs[2]>>)
                              \/ ~IsDict(At(p, BlocklyPath \o <<segs[2]>>))
                           THEN [outcome |-> "raise"]
                           ELSE merge_files(
                                    SetAt(p, BlocklyPath \o <<segs[2], "xml">>, data),
                                    refs, files, k + 1)
                  ELSE [outcome |-> "fatal"]

\* from_modular_project(modular_project)
from_modular_project(files) ==
    IF ~(\E i \in DOMAIN files : files[i].name = "meta.json")
    THEN [outcome |-> "raise"]
    ELSE LET meta == (CHOOSE f \in {files[i] : i \in DOMAIN files} : f.name = "meta.json").data
             rest == SelectSeq(files, LAMBDA f : f.name # "meta.json")
         IN  IF ~(HasPath(meta, ChildrenPath)
                  /\ merge_screens_ok(Iter(At(meta, ChildrenPath))))
             THEN [outcome |-> "raise"]
             ELSE merge_files(meta, merge_screens(Iter(At(meta, ChildrenPath))), rest, 1)

-----------------------------------------------------------------------------
(* Files on disk.  A directory is a set of [name, content]; the content of  *)
(* a file is [json_text |-> v], the text json.dumps writes for v, or        *)
(* [text |-> s], the text s.                                                *)

\* The text json.dumps writes for data, and a text written as it is.
dump_json(data) == [json_text |-> data]
dump_xml(data) == [text |-> data.str]

\* path.joinpath(name).write_text(content), into a directory that holds dir
WriteText(dir, name, content) ==
    {f \in dir : f.name # name} \cup {[name |-> name, content |-> content]}

\* write_modular_project, from files[k] on, into a directory that holds dir:
\* the files are written one after the other, for names without a directory
\* separator.  A suffix other than .json and .xml is not a key of
\* suffix_to_dump, and an .xml content that is not a str cannot be written:
\* both raise, with the files before them written.
RECURSIVE write_modular_project(_, _, _)
write_modular_project(dir, files, k) ==
    IF k > Len(files)
    THEN [outcome |-> "ok", disk |-> dir]
    ELSE IF Suffix(files[k].name) = ".json"
         THEN write_modular_project(
                  WriteText(dir, files[k].name, dump_json(files[k].data)), files, k + 1)
         ELSE IF Suffix(files[k].name) = ".xml" /\ IsText(files[k].data)
              THEN write_modular_project(
                       WriteText(dir, files[k].name, dump_xml(files[k].data)), files, k + 1)
              ELSE [outcome |-> "raise", disk |-> dir]

\* load_json(text) and load_xml(text).  A text that json.dumps did not write
\* is not JSON in the model.
load_json_ok(content) == "json_text" \in DOMAIN content
load_json(content) == content.json_text
load_xml(content) == Text(content.text)

\* The orders in which a directory can list its files.
RECURSIVE Listings(_)
Listings(dir) ==
    IF dir = {}
    THEN {<<>>}
    ELSE UNION {{<<f>> \o rest : rest \in Listings(dir \ {f})} : f \in dir}

\* project_path.glob("*.*") keeps the names with a dot in them.
GlobStarDotStar(listing) == SelectSeq(listing, LAMBDA f : Contains(f.name, "."))

\* read_modular_project, from the file paths[k] on, for a directory whose
\* .xml files hold a text: a file with another suffix than .json and .xml is
\* skipped, a .json file that is not JSON raises.
RECURSIVE read_files(_, _, _)
read_files(files, paths, k) ==
    IF k > Len(paths)
    THEN [outcome |-> "ok", files |-> files]
    ELSE IF Suffix(paths[k].name) = ".json"
         THEN IF load_json_ok(paths[k].content)
              THEN read_files(PutFile(files, paths[k].name, load_json(paths[k].content)),
                              paths, k + 1)
              ELSE [outcome |-> "raise"]
         ELSE IF Suffix(paths[k].name) = ".xml"
              THEN read_files(PutFile(files, paths[k].name, load_xml(paths[k].content)),
                              paths, k + 1)
              ELSE read_files(files, paths, k + 1)

\* read_modular_project(project_path), for a directory that lists its files
\* in the order of listing
read_modular_project(listing) == read_files(<<>>, GlobStarDotStar(listing), 1)

-----------------------------------------------------------------------------
(* Inputs of the splitter: projects of at most MaxNodes nodes (a screen    *)
(* counts one, a navigator one and one for each of its screens), with and  *)
(* without block markup for each screen id.                                *)

MaxNodes == 3

ScreenNode(screen_name, screen_id) ==
    Dict(("name" :> Text(screen_name)) @@ ("id" :> Text(screen_id))
         @@ ("type" :> Text("Screen")) @@ ("children" :> List(<<>>)))

\* Screens with a plain name, a name with a hyphen and a space, an empty
\* name, a name with a slash, and an id with a dot in it.
ScreenNodes ==
    {ScreenNode("S1", "A1"), ScreenNode("My-S 2", "B2"), ScreenNode("", "B2"),
     ScreenNode("a/b", "B2"), ScreenNode("S1", "a.b")}

\* A navigator as the designer stores it, and one that carries no name.
NavigatorNodes(screens) ==
    {Dict(("name" :> Text("Nav")) @@ ("id" :> Text("N1"))
          @@ ("type" :> Text("StackNavigator")) @@ ("children" :> List(screens))),
     Dict(("type" :> Text("StackNavigator")) @@ ("children" :> List(screens)))}

\* The nodes that count n.
NodesOfSize(n) ==
    IF n = 1
    THEN ScreenNodes \cup NavigatorNodes(<<>>)
    ELSE UNION {NavigatorNodes(q) : q \in [1..(n - 1) -> ScreenNodes]}

\* The lists of nodes that count at most n together.
RECURSIVE ChildLists(_)
ChildLists(n) ==
    {<<>>} \cup UNION {{<<node>> \o rest : node \in NodesOfSize(k),
                                          rest \in ChildLists(n - k)} : k \in 1..n}

Blocklies ==
    {Dict(Opt("A1", a) @@ Opt("B2", b) @@ Opt("a.b", c)) :
        a \in {Unused, Dict(Absent), Dict("xml" :> Text("")), Dict("xml" :> Text("<x/>"))},
        b \in {Unused, Dict("xml" :> Text("<y/>"))},
        c \in {Unused, Dict("xml" :> Text("<z/>"))}}

Project(children, blockly) ==
    Dict("data" :> Dict("project" :> Dict(
        ("projectName" :> Text("Demo"))
        @@ ("components" :> Dict("children" :> List(children)))
        @@ ("blockly" :> blockly))))

Projects(n) == {Project(children, blockly) : children \in ChildLists(n), blockly \in Blocklies}

Init ==
    /\ pc = "split"
    /\ project \in Projects(MaxNodes)
    /\ modular = Unused /\ merged = Unused /\ disk = Unused /\ run = Unused
    /\ d = Unused /\ path = Unused /\ pruned = Unused
    /\ cleaned = Unused /\ recleaned = Unused

\* modular_project = to_modular_project(project=project), as pull does
Split ==
    /\ pc = "split"
    /\ modular' = to_modular_project(project)
    /\ pc' = IF modular'.outcome = "ok" THEN "files" ELSE "split_failed"
    /\ UNCHANGED <<d, path, pruned, project, cleaned, recleaned, merged, disk, run>>

\* push after a pull into an empty directory: the files pull wrote are read
\* back with read_modular_project, in the order the directory lists them,
\* and merged with from_modular_project.
Push ==
    /\ pc = "files"
    /\ \E listing \in Listings(write_modular_project({}, modular.files, 1).disk) :
           LET modular_project == read_modular_project(listing)
           IN  merged' = IF modular_project.outcome = "ok"
                         THEN from_modular_project(modular_project.files)
                         ELSE [outcome |-> "raise"]
    /\ pc' = "merged"
    /\ UNCHANGED <<d, path, pruned, project, cleaned, recleaned, modular, disk, run>>

\* project = from_modular_project(modular_project=modular_project), called
\* on a modular project as it is
Merge ==
    /\ pc \in {"files", "edited"}
    /\ merged' = from_modular_project(modular.files)
    /\ pc' = "merged"
    /\ UNCHANGED <<d, path, pruned, project, cleaned, recleaned, modular, disk, run>>

Next == Split \/ Push

Spec == Init /\ [][Next]_vars

\* The splitter alone.
NextSplit == Split

SpecSplit == Init /\ [][NextSplit]_vars

-----------------------------------------------------------------------------
(* What the claims say about a project, said without the splitter.        *)

TopNodes(p) == At(p, ChildrenPath).list

\* A value without the order of the keys of its dicts, and Python's a == b,
\* which does not look at that order.
RECURSIVE Plain(_)
Plain(v) ==
    IF IsDict(v)
    THEN [dict |-> [k \in DOMAIN v.dict |-> Plain(v.dict[k])]]
    ELSE IF IsList(v) THEN [list |-> [i \in DOMAIN v.list |-> Plain(v.list[i])]] ELSE v

Equal(a, b) == Plain(a) = Plain(b)

\* The node has a type that contains "Navigator" (a stub has no type).
IsNavigator(node) == Has(node, "type") /\ Contains(Get(node, "type").str, "Navigator")

\* The flattened screen list: the top-level nodes whose type does not contain
\* "Navigator" and, in place of each node whose type does, its direct children.
Flattened(p) ==
    ConcatAll([i \in 1..Len(TopNodes(p)) |->
        IF IsNavigator(TopNodes(p)[i])
        THEN Get(TopNodes(p)[i], "children").list
        ELSE <<TopNodes(p)[i]>>])

NameOf(screen) == Get(screen, "name").str
IdOf(screen) == Get(screen, "id").str

ScreenIds(p) == {IdOf(Flattened(p)[i]) : i \in 1..Len(Flattened(p))}

DistinctIds(p) ==
    \A i, j \in 1..Len(Flattened(p)) :
        i # j => IdOf(Flattened(p)[i]) # IdOf(Flattened(p)[j])

DistinctNameIdPairs(p) ==
    \A i, j \in 1..Len(Flattened(p)) :
        i # j => \/ IdOf(Flattened(p)[i]) # IdOf(Flattened(p)[j])
                 \/ NameOf(Flattened(p)[i]) # NameOf(Flattened(p)[j])

BlocklyOf(p) == At(p, BlocklyPath)

\* The screen ids of blockly whose entry has an xml field but no screen.
Orphans(p) ==
    {s \in DOMAIN BlocklyOf(p).dict : Has(Get(BlocklyOf(p), s), "xml") /\ s \notin ScreenIds(p)}

\* The document has block markup under the screen id s.
HasMarkup(p, s) ==
    /\ HasPath(p, BlocklyPath \o <<s, "xml">>)
    /\ At(p, BlocklyPath \o <<s, "xml">>) # Text("")

FileNames(files) == {files[i].name : i \in DOMAIN files}

FileData(files, name) == (CHOOSE f \in {files[i] : i \in DOMAIN files} : f.name = name).data

\* The name is that of an .xml file of the screen id s: "<anything>.<s>.xml".
IsXmlFileOf(name, s) ==
    /\ Suffix(name) = ".xml"
    /\ Len(Stem(name)) > Len(s)
    /\ SubSeq(Stem(name), Len(Stem(name)) - Len(s), Len(Stem(name))) = "." \o s

\* C1 (as claimed): a project with distinct screen ids and no blockly entry
\* for a missing screen, once split and merged, is the project again.
C1_RoundTrip ==
    (pc = "merged" /\ DistinctIds(project)
        /\ DOMAIN BlocklyOf(project).dict \subseteq ScreenIds(project))
    => (merged.outcome = "ok" /\ Equal(merged.project, project))

\* C2 (as claimed): no .xml file is emitted for an orphaned blockly entry,
\* and its markup is absent from the merged project.
C2_OrphanDiscard ==
    /\ pc \in {"files", "merged"} =>
           \A s \in Orphans(project) :
               \A name \in FileNames(modular.files) : ~IsXmlFileOf(name, s)
    /\ (pc = "merged" /\ merged.outcome = "ok") =>
           \A s \in Orphans(project) : ~HasMarkup(merged.project, s)

\* The split has run (it failed, or it emitted the files).
SplitDone == pc \in {"split_failed", "files", "merged"}

\* The name is a non-empty string of letters, digits, "_", "-" and " ".
MatchesNamePattern(screen_name) ==
    /\ Len(screen_name) > 0
    /\ \A i \in 1..Len(screen_name) : Char(screen_name, i) \in WordChars \cup {"-", " "}

\* The name holds a character other than letters, digits, "_", "-" and " ".
HasForbiddenChar(screen_name) ==
    \E i \in 1..Len(screen_name) : Char(screen_name, i) \notin WordChars \cup {"-", " "}

\* C3 (as claimed): a flattened screen whose name does not match ^[\w\- ]+$,
\* the empty name included, makes the split fatal, with no file set.
C3_NamePatternEnforced ==
    (SplitDone /\ \E i \in 1..Len(Flattened(project)) :
                      ~MatchesNamePattern(NameOf(Flattened(project)[i])))
    => (modular.outcome = "fatal" /\ "files" \notin DOMAIN modular)

\* C3 (amended): a flattened screen whose name holds a character other than
\* letters, digits, underscore, hyphen and space makes the split fatal, with
\* no file set, wherever the screen stands in the list.
C3_ForbiddenCharFatal ==
    (SplitDone /\ \E i \in 1..Len(Flattened(project)) :
                      HasForbiddenChar(NameOf(Flattened(project)[i])))
    => (modular.outcome = "fatal" /\ "files" \notin DOMAIN modular)

\* C3 witness: the split failed on a project of three screens of which only
\* the last one, inside a navigator, has a forbidden character in its name.
C3_Witness ==
    /\ pc = "split_failed"
    /\ modular.outcome = "fatal"
    /\ Len(TopNodes(project)) = 2
    /\ Len(Flattened(project)) = 2
    /\ IsNavigator(TopNodes(project)[2])
    /\ ~HasForbiddenChar(NameOf(Flattened(project)[1]))
    /\ HasForbiddenChar(NameOf(Flattened(project)[2]))

\* The per-screen files of a file set, in the order of the file set.
ScreenFiles(files) ==
    SelectSeq(files, LAMBDA f : Suffix(f.name) = ".json" /\ f.name # "meta.json")

\* C8: when the split succeeds on a project with distinct (name, id) pairs,
\* its per-screen .json files are, in order, one file "<name>.<id>.json" for
\* each screen of the flattened list, holding the screen node as it was; so
\* no file stands for a navigator.
C8_OneFilePerFlattenedScreen ==
    (pc \in {"files", "merged"} /\ DistinctNameIdPairs(project))
    => ScreenFiles(modular.files) =
           [i \in 1..Len(Flattened(project)) |->
               [name |-> NameOf(Flattened(project)[i]) \o "."
                          \o IdOf(Flattened(project)[i]) \o ".json",
                data |-> Flattened(project)[i]]]

\* C8 witness: a navigator wrapping two screens has been split into two
\* per-screen files.
C8_Witness ==
    /\ pc = "files"
    /\ Len(TopNodes(project)) = 1
    /\ IsNavigator(TopNodes(project)[1])
    /\ Len(Flattened(project)) = 2
    /\ DistinctNameIdPairs(project)
    /\ Len(ScreenFiles(modular.files)) = 2

\* The stub the claim puts in place of a screen.
Stub(screen) == Dict("id" :> Get(screen, "id"))

\* The remainder the claim describes: every flattened screen stubbed where
\* it stands, every xml field under blockly blank, the rest as it was.
Remainder(p) ==
    SetAt(SetAt(p, ChildrenPath,
                List([i \in 1..Len(TopNodes(p)) |->
                    IF IsNavigator(TopNodes(p)[i])
                    THEN Put(TopNodes(p)[i], "children",
                             List([j \in 1..Len(Get(TopNodes(p)[i], "children").list) |->
                                     Stub(Get(TopNodes(p)[i], "children").list[j])]))
                    ELSE Stub(TopNodes(p)[i])])),
          BlocklyPath,
          Dict([s \in DOMAIN BlocklyOf(p).dict |->
                  IF Has(Get(BlocklyOf(p), s), "xml")
                  THEN Put(Get(BlocklyOf(p), s), "xml", Text(""))
                  ELSE Get(BlocklyOf(p), s)]))

\* The scenario of the claim: one screen Screen1/A1 with markup.
Scenario ==
    Project(<<ScreenNode("S1", "A1")>>, Dict("A1" :> Dict("xml" :> Text("<x/>"))))

\* C9 (as claimed): meta.json is the project with every flattened screen
\* stubbed and every xml field under blockly blank; the scenario yields
\* exactly its three files.
C9_RemainderShape ==
    pc \in {"files", "merged"} =>
        /\ Equal(FileData(modular.files, "meta.json"), Remainder(project))
        /\ project = Scenario =>
               FileNames(modular.files) = {"S1.A1.json", "S1.A1.xml", "meta.json"}

\* C10 (as claimed): an .xml file is emitted for exactly the blockly ids that
\* have a non-empty xml field and a screen in the flattened list; it holds
\* the xml string, and the field in meta.json is blank.
C10_XmlFiles ==
    pc \in {"files", "merged"} =>
        \A s \in DOMAIN BlocklyOf(project).dict :
            LET emitted == {name \in FileNames(modular.files) : IsXmlFileOf(name, s)}
            IN  IF HasMarkup(project, s) /\ s \in ScreenIds(project)
                THEN /\ \E i \in 1..Len(Flattened(project)) :
                            /\ IdOf(Flattened(project)[i]) = s
                            /\ emitted = {NameOf(Flattened(project)[i]) \o "." \o s \o ".xml"}
                     /\ \A name \in emitted :
                            FileData(modular.files, name)
                                = At(project, BlocklyPath \o <<s, "xml">>)
                     /\ At(FileData(modular.files, "meta.json"), BlocklyPath \o <<s, "xml">>)
                            = Text("")
                ELSE emitted = {}

-----------------------------------------------------------------------------
(* Merging a file set that is not the output of a split: a caller takes    *)
(* the files of a split project, removes one entry or sets one, and calls  *)
(* from_modular_project on the result.  (push reads its file set with      *)
(* read_modular_project, which skips the files that are neither .json nor  *)
(* .xml; the function itself takes any dict.)                              *)

StrayFiles ==
    {[name |-> "notes.txt", data |-> Text("todo")],
     [name |-> "README", data |-> Text("todo")],
     [name |-> "Old.Z9.json", data |-> ScreenNode("Old", "Z9")],
     [name |-> "Old.Z9.xml", data |-> Text("<o/>")],
     [name |-> "S1.A1.xml", data |-> Text("<q/>")],
     [name |-> "Lost.xml", data |-> Text("<l/>")]}

InitMerge ==
    /\ pc = "files"
    /\ project \in {p \in Projects(MaxNodes - 1) : to_modular_project(p).outcome = "ok"}
    /\ modular = to_modular_project(project)
    /\ merged = Unused /\ disk = Unused /\ run = Unused
    /\ d = Unused /\ path = Unused /\ pruned = Unused
    /\ cleaned = Unused /\ recleaned = Unused

\* del modular_project[name], for one of its names
RemoveFile ==
    /\ pc = "files"
    /\ \E i \in DOMAIN modular.files :
           modular' = [modular EXCEPT !.files =
                          SelectSeq(modular.files, LAMBDA f : f.name # modular.files[i].name)]
    /\ pc' = "edited"
    /\ UNCHANGED <<d, path, pruned, project, cleaned, recleaned, merged, disk, run>>

\* modular_project[f.name] = f.data, for one stray file f
AddFile ==
    /\ pc = "files"
    /\ \E f \in StrayFiles :
           modular' = [modular EXCEPT !.files = PutFile(modular.files, f.name, f.data)]
    /\ pc' = "edited"
    /\ UNCHANGED <<d, path, pruned, project, cleaned, recleaned, merged, disk, run>>

NextMerge == RemoveFile \/ AddFile \/ Merge

SpecMerge == InitMerge /\ [][NextMerge]_vars

HasMeta(files) == "meta.json" \in FileNames(files)

\* The ids of the stubs of the flattened stub list of meta.json.
StubIds(files) ==
    LET meta == FileData(files, "meta.json")
    IN  {IdOf(Flattened(meta)[i]) : i \in 1..Len(Flattened(meta))}

\* The screen id a file name carries: the last segment of the stem of a .json
\* file, the second segment of the stem of an .xml file (none: <<>>).
IdSegment(name) ==
    LET segs == SplitDots(Stem(name))
    IN  IF Suffix(name) = ".json"
        THEN <<segs[Len(segs)]>>
        ELSE IF Len(segs) >= 2 THEN <<segs[2]>> ELSE <<>>

\* C6 (as claimed): the merge returns no document when meta.json is absent,
\* when a remaining .json or .xml file matches no stub of the flattened stub
\* list of meta.json, or when a remaining file has another extension.
C6_StructuralErrors ==
    pc = "merged" =>
        LET files == modular.files
            rest == FileNames(files) \ {"meta.json"}
        IN  (\/ ~HasMeta(files)
             \/ \E name \in rest : Suffix(name) \notin {".json", ".xml"}
             \/ /\ HasMeta(files)
                /\ \E name \in rest :
                       /\ Suffix(name) \in {".json", ".xml"}
                       /\ \A i \in DOMAIN IdSegment(name) :
                              IdSegment(name)[i] \notin StubIds(files))
            => (merged.outcome # "ok" /\ "project" \notin DOMAIN merged)

-----------------------------------------------------------------------------
(* The two flattenings: the screens list of the split over a project, and  *)
(* the screens list of the merge over the meta.json the split emitted.     *)

\* The id of each node of a screens list, in order; <<>> for a node that
\* carries no id.
IdsAt(children, refs) ==
    [k \in 1..Len(refs) |->
        IF Has(NodeAt(children, refs[k]), "id")
        THEN <<Get(NodeAt(children, refs[k]), "id")>>
        ELSE <<>>]

\* The ids of the screens list the split built over the project.
SplitIds == IdsAt(TopNodes(project), split_screens(TopNodes(project)))

\* The ids of the screens list the merge builds over the emitted meta.json.
MergeIds ==
    IdsAt(TopNodes(FileData(modular.files, "meta.json")),
          merge_screens(TopNodes(FileData(modular.files, "meta.json"))))

\* C11 (as claimed): for every project the split accepts, the screens list
\* the merge builds over the emitted meta.json has the same length and the
\* same ids in the same order as the screens list the split built over the
\* project, whatever other fields a navigator node carries.
C11_SameFlattening ==
    pc \in {"files", "merged"} =>
        /\ merge_screens_ok(TopNodes(FileData(modular.files, "meta.json")))
        /\ MergeIds = SplitIds

-----------------------------------------------------------------------------
(* pull                                                                    *)
(*                                                                         *)
(* disk is the set of files of the target directory, run the record of a   *)
(* run of pull: the configuration file it finds, its modular and clean     *)
(* options, the files the directory held before, the response of the       *)
(* server and the answer of the user once they are known.  project and     *)
(* modular are pull's locals of the same names.  pc is the statement pull  *)
(* is at, or how it ended: "exit1" and "exit0" are exit(1) and exit(0),    *)
(* "raised" an uncaught exception, "done" the return of pull.              *)

\* ans = input(...).lower(), over the answers of the model
Lower(answer) == IF answer = "Y" THEN "y" ELSE answer

\* The configuration files: a good one, none, one that is not JSON, and one
\* without thunk_token.
Configs == {"ok", "missing", "not_json", "no_token"}

\* The responses: content without the bytes "project", content with them
\* that is not JSON, an error document, and a project document.
FailedResponses == {"no_project", "not_json", "errors"}

\* What a target directory can hold before the run.
OldFile(name) == [name |-> name, content |-> [text |-> "old"]]
OldDirs == {{}, {OldFile("notes.txt")}, {OldFile("meta.json"), OldFile("S1.A1.xml")}}

Answers == {"y", "Y", "n", ""}

InitPull ==
    /\ pc = "config"
    /\ disk \in OldDirs
    /\ run \in {[config |-> c, modular |-> m, clean |-> k, before |-> disk,
                 response |-> "none", ans |-> "none", listed |-> {}] :
                    c \in Configs, m \in BOOLEAN, k \in BOOLEAN}
    /\ project = Unused /\ modular = Unused /\ merged = Unused
    /\ d = Unused /\ path = Unused /\ pruned = Unused
    /\ cleaned = Unused /\ recleaned = Unused

\* config = safe_read_config()
safe_read_config ==
    /\ pc = "config"
    /\ pc' = IF run.config = "ok" THEN "fetch" ELSE "exit1"
    /\ UNCHANGED <<d, path, pruned, project, cleaned, recleaned, modular, merged, disk, run>>

\* r = requests.post(**request), and the two tests of the response
PullFetch ==
    /\ pc = "fetch"
    /\ \/ /\ \E r \in FailedResponses :
                /\ run' = [run EXCEPT !.response = r]
                /\ pc' = IF r = "not_json" THEN "raised" ELSE "exit1"
          /\ UNCHANGED project
       \/ /\ run' = [run EXCEPT !.response = "unreachable"]
          /\ pc' = "raised"
          /\ UNCHANGED project
       \/ /\ project' \in Projects(MaxNodes - 2)
          /\ run' = [run EXCEPT !.response = "project"]
          /\ pc' = "clean"
    /\ UNCHANGED <<d, path, pruned, cleaned, recleaned, modular, merged, disk>>

\* if clean: project = to_clean_project(project=project)
PullClean ==
    /\ pc = "clean"
    /\ IF run.clean
       THEN IF to_clean_project(project).outcome = "ok"
            THEN project' = to_clean_project(project).project /\ pc' = "clean_path"
            ELSE pc' = "raised" /\ UNCHANGED project
       ELSE pc' = "clean_path" /\ UNCHANGED project
    /\ UNCHANGED <<d, path, pruned, cleaned, recleaned, modular, merged, disk, run>>

\* safe_clean_path(path=path), up to the question: an empty directory is
\* removed and made again at once, the files of any other are listed and
\* the run waits in input() with nothing deleted.
safe_clean_path ==
    /\ pc = "clean_path"
    /\ IF disk # {}
       THEN pc' = "confirm" /\ run' = [run EXCEPT !.listed = disk] /\ UNCHANGED disk
       ELSE pc' = "split" /\ disk' = {} /\ UNCHANGED run
    /\ UNCHANGED <<d, path, pruned, project, cleaned, recleaned, modular, merged>>

\* safe_clean_path from the answer on: exit(0) unless the answer is "y" once
\* lowered, shutil.rmtree and mkdir otherwise.
safe_clean_path_answer ==
    /\ pc = "confirm"
    /\ \E answer \in Answers :
           /\ run' = [run EXCEPT !.ans = Lower(answer)]
           /\ IF Lower(answer) # "y"
              THEN pc' = "exit0" /\ UNCHANGED disk
              ELSE pc' = "split" /\ disk' = {}
    /\ UNCHANGED <<d, path, pruned, project, cleaned, recleaned, modular, merged>>

\* The files another process can write while the question waits.
LateFiles == {OldFile("late.txt")}

\* Another process writes a file into the directory while the question waits.
LateWrite ==
    /\ pc = "confirm"
    /\ \E f \in LateFiles \ disk : disk' = disk \cup {f}
    /\ UNCHANGED <<pc, d, path, pruned, project, cleaned, recleaned, modular, merged, run>>

\* if modular: modular_project = to_modular_project(project=project)
PullSplit ==
    /\ pc = "split"
    /\ IF run.modular
       THEN /\ modular' = to_modular_project(project)
            /\ pc' = CASE modular'.outcome = "ok" -> "write"
                       [] modular'.outcome = "fatal" -> "exit1"
                       [] OTHER -> "raised"
       ELSE pc' = "write" /\ UNCHANGED modular
    /\ UNCHANGED <<d, path, pruned, project, cleaned, recleaned, merged, disk, run>>

\* write_modular_project(...), or meta.json alone when not modular
PullWrite ==
    /\ pc = "write"
    /\ IF run.modular
       THEN /\ disk' = write_modular_project(disk, modular.files, 1).disk
            /\ pc' = IF write_modular_project(disk, modular.files, 1).outcome = "ok"
                     THEN "done" ELSE "raised"
       ELSE /\ disk' = WriteText(disk, "meta.json", dump_json(project))
            /\ pc' = "done"
    /\ UNCHANGED <<d, path, pruned, project, cleaned, recleaned, modular, merged, run>>

NextPull ==
    \/ safe_read_config \/ PullFetch \/ PullClean
    \/ safe_clean_path \/ safe_clean_path_answer \/ LateWrite
    \/ PullSplit \/ PullWrite

SpecPull == InitPull /\ [][NextPull]_vars

\* A file the directory held before the run is no longer there as it was.
Deleted == \E f \in run.before : f \notin disk

\* C12 (as claimed): the files the target directory held before are deleted
\* only after the fetch brought a project without errors and, when the
\* directory was not empty, the user answered "y"; a run that ends in
\* exit(1) leaves every file the directory held in place; a run the user
\* declined leaves them in place too and has written no file.
C12_PullOrdering ==
    /\ Deleted => (run.response = "project" /\ run.ans = "y")
    /\ pc = "exit1" => run.before \subseteq disk
    /\ pc = "exit0" => (run.before \subseteq disk /\ disk \subseteq run.before \cup LateFiles)

====
